---- MODULE Spec2Model ----
(***************************************************************************)
(* Model of collect_yt_keywords.py: the trending collector.  One run is    *)
(* main(): resolve the region, read the API key, issue one videos request, *)
(* write a CSV summary when the response has items, write the JSON bundle. *)
(* Runs share a file system and a UTC clock.                               *)
(*                                                                         *)
(* A Python str is a sequence of one-character strings.  A decoded JSON    *)
(* value (and None) is a tagged record [t, v]; a JSON object is the        *)
(* ordered sequence of its <<key, value>> pairs, as a Python dict is.      *)
(***************************************************************************)
EXTENDS Integers, Sequences, FiniteSets, TLC

VARIABLES now, files, outputsDir, pc, argv, environ, max_results, region,
          api_key, all_results, stdout, exit_status, trace, csv_ret

vars == <<now, files, outputsDir, pc, argv, environ, max_results, region,
          api_key, all_results, stdout, exit_status, trace, csv_ret>>

(* ------------------------------ bounds --------------------------------- *)
NumRuns == 2
MaxTicks == 2
MaxItems == 2
MaxRequested == 75

Runs == 1..NumRuns

(* ------------------------------ strings -------------------------------- *)
Digits == <<"0", "1", "2", "3", "4", "5", "6", "7", "8", "9">>

RECURSIVE NatStr(_)
NatStr(n) == IF n < 10 THEN <<Digits[n + 1]>>
             ELSE NatStr(n \div 10) \o <<Digits[(n % 10) + 1]>>

\* str(int)
Str(n) == IF n < 0 THEN <<"-">> \o NatStr(0 - n) ELSE NatStr(n)

\* %02d-style zero padding used by strftime fields
Pad(n, w) == LET s == NatStr(n)
             IN  IF Len(s) >= w THEN s
                 ELSE [i \in 1..(w - Len(s)) |-> "0"] \o s

\* s[:k]
Slice(s, k) == SubSeq(s, 1, IF Len(s) < k THEN Len(s) ELSE k)

\* ---- text used by the program and the libraries it calls
JP == <<"J", "P">>
YOUTUBE_API_KEY == "YOUTUBE_API_KEY"
YOUTUBE_REGION == "YOUTUBE_REGION"
API_URL == "https://www.googleapis.com/youtube/v3/videos"
TitleLimit == 500
ChannelLimit == 200
ApiMaxResults == 50
DefaultMaxResults == 10

(* ------------------------------ JSON / Python values ------------------- *)
None == [t |-> "null", v |-> <<>>]
JStr(s) == [t |-> "str", v |-> s]
JNum(n) == [t |-> "num", v |-> n]
JList(q) == [t |-> "list", v |-> q]
JObj(q) == [t |-> "obj", v |-> q]

\* bool(x): None, 0, "", [] and {} are falsy
Truthy(x) == CASE x.t = "null" -> FALSE
               [] x.t = "num" -> x.v # 0
               [] OTHER -> Len(x.v) > 0

\* x or y
Or(x, y) == IF Truthy(x) THEN x ELSE y

\* isinstance(x, dict)
IsDict(x) == x.t = "obj"

\* k in d
HasKey(d, k) == \E i \in 1..Len(d.v) : d.v[i][1] = k

\* d.get(k, default)
Get(d, k, default) ==
    IF HasKey(d, k)
    THEN d.v[CHOOSE i \in 1..Len(d.v) : d.v[i][1] = k][2]
    ELSE default

\* d[k] = x  (the key keeps its position when present, is appended when not)
SetKey(d, k, x) ==
    IF HasKey(d, k)
    THEN JObj([i \in 1..Len(d.v) |-> IF d.v[i][1] = k THEN <<k, x>> ELSE d.v[i]])
    ELSE JObj(Append(d.v, <<k, x>>))

\* the values a for loop over x visits; iterating None or a number raises
Iterable(x) == x.t \in {"list", "str", "obj"}
Iterate(x) == CASE x.t = "list" -> x.v
                [] x.t = "str" -> [i \in 1..Len(x.v) |-> JStr(<<x.v[i]>>)]
                [] x.t = "obj" -> [i \in 1..Len(x.v) |-> [t |-> "key", v |-> x.v[i][1]]]

\* x[:k] is defined for str and list; anything else raises TypeError
Sliceable(x) == x.t \in {"str", "list"}

\* the seed keywords the module declares
DEFAULT_KEYWORDS ==
    <<JStr(<<"p", "y", "t", "h", "o", "n", " ", "t", "u", "t", "o", "r", "i", "a", "l">>),
      JStr(<<"h", "o", "w", " ", "t", "o", " ", "c", "o", "d", "e">>),
      JStr(<<"y", "o", "u", "t", "u", "b", "e", " ", "a", "p", "i">>)>>

(* ------------------------------ clock ---------------------------------- *)
\* 2026-12-31T23:59:58Z as seconds since the epoch
StartInstant == 20818 * 86400 + 86398

\* proleptic Gregorian date of a day count since 1970-01-01
CivilFromDays(days) ==
    LET z == days + 719468
        era == z \div 146097
        doe == z - era * 146097
        yoe == (doe - doe \div 1460 + doe \div 36524 - doe \div 146096) \div 365
        doy == doe - (365 * yoe + yoe \div 4 - yoe \div 100)
        mp == (5 * doy + 2) \div 153
        d == doy - (153 * mp + 2) \div 5 + 1
        m == IF mp < 10 THEN mp + 3 ELSE mp - 9
        y == yoe + era * 400 + (IF m <= 2 THEN 1 ELSE 0)
    IN  [year |-> y, month |-> m, day |-> d]

\* datetime.utcnow() at clock reading s
UtcNow(s) ==
    LET c == CivilFromDays(s \div 86400)
    IN  [year |-> c.year, month |-> c.month, day |-> c.day,
         hour |-> (s \div 3600) % 24, minute |-> (s \div 60) % 60,
         second |-> s % 60]

\* variant: the seconds field is left out of the format
StrftimeNoSeconds(dt) ==
    Pad(dt.year, 4) \o Pad(dt.month, 2) \o Pad(dt.day, 2) \o <<"T">>
      \o Pad(dt.hour, 2) \o Pad(dt.minute, 2) \o <<"Z">>

\* .strftime("%Y%m%dT%H%M%SZ")
Strftime(dt) ==
    Pad(dt.year, 4) \o Pad(dt.month, 2) \o Pad(dt.day, 2) \o <<"T">>
      \o Pad(dt.hour, 2) \o Pad(dt.minute, 2) \o Pad(dt.second, 2) \o <<"Z">>

\* .isoformat() + "Z", at whole seconds
IsoFormatZ(dt) ==
    Pad(dt.year, 4) \o <<"-">> \o Pad(dt.month, 2) \o <<"-">> \o Pad(dt.day, 2)
      \o <<"T">> \o Pad(dt.hour, 2) \o <<":">> \o Pad(dt.minute, 2) \o <<":">>
      \o Pad(dt.second, 2) \o <<"Z">>

\* os.path.join("outputs", f"yt_results_{now}.json")
JsonPath(stamp) == <<"outputs", "yt_results_", stamp, ".json">>

\* os.path.join("outputs", f"yt_trending_{now}.csv")
CsvPath(stamp) == <<"outputs", "yt_trending_", stamp, ".csv">>

(* ------------------------------ get_api_key ---------------------------- *)
MsgKeyUnset == <<"Error: YOUTUBE_API_KEY environment variable is not set.">>
MsgKeyHint == <<"Set it in GitHub Actions secrets (YOUTUBE_API_KEY) or pass it in the environment.">>

\* key = os.environ.get("YOUTUBE_API_KEY")
get_api_key(env) == Get(env, YOUTUBE_API_KEY, None)

\* variant: only an unset variable counts as missing (if key is None)
KeyMissingNoneOnly(key) == key = None

\* if not key: print the diagnostic and sys.exit(1)
KeyMissing(key) == ~Truthy(key)

(* ------------------------------ query_trending ------------------------- *)
\* variant: max_results is passed through unclamped
ClampNone(m) == m

\* if max_results > 50: max_results = 50
ClampMaxResults(m) == IF m > ApiMaxResults THEN ApiMaxResults ELSE m

\* the GET request: endpoint and the query parameters in dict order
BuildRequest(key, reg, m) ==
    [url |-> API_URL,
     params |-> << <<"part", "snippet,statistics,contentDetails">>,
                   <<"chart", "mostPopular">>,
                   <<"regionCode", reg.v>>,
                   <<"maxResults", Str(ClampMaxResults(m))>>,
                   <<"key", key.v>> >>]

\* str(exc) for what urlopen, resp.read and json.loads raise
TxtTimedOut == <<"t", "i", "m", "e", "d", " ", "o", "u", "t">>
TxtUrlopenError == <<"<", "u", "r", "l", "o", "p", "e", "n", " ", "e", "r", "r", "o", "r", " ">>
TxtHttpError == <<"H", "T", "T", "P", " ", "E", "r", "r", "o", "r", " ">>
TxtLineCol == <<":", " ", "l", "i", "n", "e", " ", "1", " ", "c", "o", "l", "u", "m", "n", " ", "1">>
ExcStr(exc) ==
    CASE exc.type = "URLError" -> TxtUrlopenError \o exc.arg \o <<">">>
      [] exc.type = "HTTPError" -> TxtHttpError \o Str(exc.code) \o <<":", " ">> \o exc.arg
      [] exc.type = "TimeoutError" -> exc.arg
      [] exc.type = "JSONDecodeError" -> exc.arg \o TxtLineCol

\* except Exception as exc: data = {"error": str(exc)}
ErrorObject(exc) == JObj(<< <<"error", JStr(ExcStr(exc))>> >>)

(* ------------------------------ save_csv ------------------------------- *)
MsgNoItems == <<"No items present to write CSV output; skipping CSV.">>
MsgNoRows == <<"No parsed rows for CSV; skipping CSV.">>
CsvHeader == <<"videoId", "title", "channelTitle", "viewCount">>
EmptyDict == JObj(<<>>)
EmptyStr == JStr(<<>>)

\* variant: the "items" key is not looked for
SkipCsvNoKeyTest(items) == ~Truthy(items) \/ ~IsDict(items)

\* if not items or not isinstance(items, dict) or "items" not in items
SkipCsv(items) == ~Truthy(items) \/ ~IsDict(items) \/ ~HasKey(items, "items")

\* variant: the id is used whatever its shape
VideoIdAsIs(item) == Get(item, "id", None)

\* vid = item.get("id"); dict ids give videoId or kind, others the id itself
VideoId(item) ==
    LET vid == Get(item, "id", None)
    IN  IF IsDict(vid)
        THEN Or(Get(vid, "videoId", None), Get(vid, "kind", None))
        ELSE vid

\* the loop body raises AttributeError / TypeError on these items
ItemRaises(item) ==
    \/ ~IsDict(item)
    \/ ~IsDict(Get(item, "snippet", EmptyDict))
    \/ ~Sliceable(Get(Get(item, "snippet", EmptyDict), "title", EmptyStr))
    \/ ~Sliceable(Get(Get(item, "snippet", EmptyDict), "channelTitle", EmptyStr))
    \/ ~IsDict(Get(item, "statistics", EmptyDict))

\* the dict appended to rows for one item
ItemRow(item) ==
    LET snippet == Get(item, "snippet", EmptyDict)
        stats == Get(item, "statistics", EmptyDict)
        title == Get(snippet, "title", EmptyStr)
        channel == Get(snippet, "channelTitle", EmptyStr)
    IN  [videoId |-> Or(VideoId(item), EmptyStr),
         title |-> [t |-> title.t, v |-> Slice(title.v, TitleLimit)],
         channelTitle |-> [t |-> channel.t, v |-> Slice(channel.v, ChannelLimit)],
         viewCount |-> Get(stats, "viewCount", EmptyStr)]

\* for item in items.get("items", []): rows.append(...)
RECURSIVE CollectRows(_)
CollectRows(seq) ==
    IF seq = <<>> THEN [raised |-> FALSE, rows |-> <<>>]
    ELSE IF ItemRaises(Head(seq)) THEN [raised |-> TRUE, rows |-> <<>>]
    ELSE LET rest == CollectRows(Tail(seq))
         IN  IF rest.raised THEN rest
             ELSE [raised |-> FALSE, rows |-> <<ItemRow(Head(seq))>> \o rest.rows]

ExtractRows(items) ==
    LET inner == Get(items, "items", JList(<<>>))
    IN  IF ~Iterable(inner) THEN [raised |-> TRUE, rows |-> <<>>]
        ELSE CollectRows(Iterate(inner))

\* the text csv.writer puts in a cell: None is empty, str is itself, else str(x)
CsvCell(x) == CASE x.t = "null" -> <<>>
                [] x.t = "str" -> x.v
                [] x.t = "num" -> Str(x.v)
                [] OTHER -> <<"repr", x>>

\* writer.writeheader(); for r in rows: writer.writerow(r)
CsvContent(rows) ==
    <<CsvHeader>> \o [i \in 1..Len(rows) |->
        <<CsvCell(rows[i].videoId), CsvCell(rows[i].title),
          CsvCell(rows[i].channelTitle), CsvCell(rows[i].viewCount)>>]

(* ------------------------------ main ----------------------------------- *)
\* variant: the environment variable wins over the command line
ResolveRegionEnvFirst(args, env) ==
    LET cli_region == IF Len(args) > 1 THEN args[2] ELSE None
    IN  Or(Or(Get(env, YOUTUBE_REGION, None), cli_region), JStr(JP))

\* cli_region or os.environ.get("YOUTUBE_REGION") or "JP"
ResolveRegion(args, env) ==
    LET cli_region == IF Len(args) > 1 THEN args[2] ELSE None
    IN  Or(Or(cli_region, Get(env, YOUTUBE_REGION, None)), JStr(JP))

\* {"fetched_at": ..., "region": region, "items": []}
NewBundle(s, reg) ==
    JObj(<< <<"fetched_at", JStr(IsoFormatZ(UtcNow(s)))>>,
            <<"region", reg>>,
            <<"items", JList(<<>>)>> >>)

\* open(path, "w") and write: creates the file or replaces its content
WriteFile(fs, path, content, r, s) ==
    [p \in (DOMAIN fs) \cup {path} |->
        IF p = path THEN [content |-> content, mtime |-> s, writer |-> r]
        ELSE fs[p]]

(* ------------------------------ inputs --------------------------------- *)
Script == JStr(<<"c">>)
US == JStr(<<"U", "S">>)
GB == JStr(<<"G", "B">>)
KR == JStr(<<"K", "R">>)
Key1 == JStr(<<"k", "1">>)

\* sys.argv: no argument, a region, an empty argument, two arguments
ArgvInputs == {<<Script>>, <<Script, US>>, <<Script, EmptyStr>>, <<Script, US, GB>>}

\* os.environ restricted to the two variables the program reads
EnvOf(k, reg) ==
    JObj((IF k = None THEN <<>> ELSE << <<YOUTUBE_API_KEY, k>> >>)
         \o (IF reg = None THEN <<>> ELSE << <<YOUTUBE_REGION, reg>> >>))
EnvInputs == {EnvOf(k, reg) : k \in {None, EmptyStr, Key1}, reg \in {None, EmptyStr, KR}}

\* what the remote call can raise
Exc(type, code, arg) == [type |-> type, code |-> code, arg |-> arg]
Failures ==
    {Exc("URLError", 0, TxtTimedOut), Exc("URLError", 0, <<>>),
     Exc("TimeoutError", 0, TxtTimedOut),
     Exc("HTTPError", 403, <<"F">>), Exc("HTTPError", 500, <<>>),
     Exc("JSONDecodeError", 0, <<"E">>)}

\* video resources and other list elements a decoded body can hold
Snip == JObj(<< <<"title", JStr(<<"t">>)>>, <<"channelTitle", JStr(<<"c">>)>> >>)
Stat == JObj(<< <<"viewCount", JStr(<<"7">>)>> >>)
Vid1 == JStr(<<"v", "1">>)
Vid2 == JStr(<<"v", "2">>)
Kind == JStr(<<"k">>)
LongText(n) == JStr([i \in 1..n |-> "x"])
Item(idPairs, rest) == JObj(idPairs \o rest)
IdShapes ==
    {<<>>, << <<"id", None>> >>, << <<"id", Vid1>> >>, << <<"id", EmptyStr>> >>,
     << <<"id", JObj(<< <<"videoId", Vid2>>, <<"kind", Kind>> >>)>> >>,
     << <<"id", JObj(<< <<"videoId", EmptyStr>>, <<"kind", Kind>> >>)>> >>,
     << <<"id", JObj(<< <<"kind", Kind>> >>)>> >>,
     << <<"id", EmptyDict>> >>}
VideoItems ==
    {Item(i, << <<"snippet", Snip>>, <<"statistics", Stat>> >>) : i \in IdShapes}
      \cup {Item(<< <<"id", Vid1>> >>, <<>>),
            Item(<< <<"id", Vid1>> >>,
                 << <<"snippet", JObj(<< <<"title", LongText(TitleLimit + 1)>>,
                                         <<"channelTitle", LongText(ChannelLimit + 1)>> >>)>>,
                    <<"statistics", EmptyDict>> >>)}
OddItems ==
    {JStr(<<"x">>),
     Item(<< <<"id", Vid1>> >>, << <<"snippet", None>> >>),
     Item(<< <<"id", Vid1>> >>, << <<"snippet", JObj(<< <<"title", None>> >>)>> >>),
     Item(<< <<"id", Vid1>> >>, << <<"snippet", JObj(<< <<"title", JNum(5)>> >>)>> >>),
     Item(<< <<"id", Vid1>> >>, << <<"snippet", JObj(<< <<"channelTitle", None>> >>)>> >>),
     Item(<< <<"id", Vid1>> >>, << <<"statistics", None>> >>)}

SeqsUpTo(S, n) == UNION {[1..k -> S] : k \in 0..n}

WithItems(x) == JObj(<< <<"kind", JStr(<<"l">>)>>, <<"items", x>> >>)

\* decoded bodies: no items list, an items value that is no list, item lists
Bodies ==
    {None, JNum(0), JNum(3), JStr(<<"s">>), JList(<<JNum(1)>>), EmptyDict,
     JObj(<< <<"kind", JStr(<<"l">>)>> >>),
     JObj(<< <<"error", JObj(<< <<"code", JNum(403)>> >>)>> >>)}
      \cup {WithItems(x) : x \in {None, JNum(7), EmptyStr, JStr(<<"a", "b">>),
                                  EmptyDict, Snip}}
      \cup {WithItems(JList(q)) : q \in SeqsUpTo(VideoItems \cup OddItems, MaxItems)}

Reply(raised, exc, body) == [raised |-> raised, exc |-> exc, body |-> body]
NoExc == Exc("", 0, <<>>)
Replies == {Reply(TRUE, e, None) : e \in Failures}
             \cup {Reply(FALSE, NoExc, b) : b \in Bodies}

\* a failure, a body without items, an empty list, one video
FewReplies ==
    {Reply(TRUE, Exc("TimeoutError", 0, TxtTimedOut), None),
     Reply(FALSE, NoExc, EmptyDict),
     Reply(FALSE, NoExc, WithItems(JList(<<>>))),
     Reply(FALSE, NoExc, WithItems(JList(<<Item(<< <<"id", Vid1>> >>, <<>>)>>)))}

\* a failure and one video: a run that only writes JSON, a run that writes both
TwoReplies ==
    {Reply(TRUE, Exc("TimeoutError", 0, TxtTimedOut), None),
     Reply(FALSE, NoExc, WithItems(JList(<<Item(<< <<"id", Vid1>> >>, <<>>)>>)))}

(* ------------------------------ state ---------------------------------- *)
Unset == [t |-> "unset", v |-> <<>>]
Running == 0 - 1
NoFiles == [p \in {} |-> 0]

InitShared ==
    /\ now = StartInstant
    /\ files = NoFiles
    /\ outputsDir = FALSE
    /\ stdout = [r \in Runs |-> <<>>]
    /\ exit_status = [r \in Runs |-> Running]
    /\ trace = [r \in Runs |-> <<>>]
    /\ csv_ret = [r \in Runs |-> Unset]

\* one run of main() on any command line and environment
Init ==
    /\ InitShared
    /\ pc = [r \in Runs |-> IF r = 1 THEN "start" ELSE "off"]
    /\ \E a \in ArgvInputs : argv = [r \in Runs |-> a]
    /\ \E e \in EnvInputs : environ = [r \in Runs |-> e]
    /\ max_results = [r \in Runs |-> DefaultMaxResults]
    /\ region = [r \in Runs |-> Unset]
    /\ api_key = [r \in Runs |-> Unset]
    /\ all_results = [r \in Runs |-> Unset]

\* query_trending called with any max_results, from the state main calls it in
InitQT ==
    /\ InitShared
    /\ pc = [r \in Runs |-> IF r = 1 THEN "query" ELSE "off"]
    /\ argv = [r \in Runs |-> <<Script>>]
    /\ environ = [r \in Runs |-> EnvOf(Key1, None)]
    /\ \E m \in (0 - 3)..MaxRequested : max_results = [r \in Runs |-> m]
    /\ \E reg \in {JStr(JP), US} :
         /\ region = [r \in Runs |-> reg]
         /\ all_results = [r \in Runs |-> NewBundle(now, reg)]
    /\ api_key = [r \in Runs |-> Key1]

\* every run started with the key set, sharing outputs/ and the clock
InitRuns ==
    /\ InitShared
    /\ pc = [r \in Runs |-> "start"]
    /\ argv = [r \in Runs |-> <<Script>>]
    /\ environ = [r \in Runs |-> EnvOf(Key1, None)]
    /\ max_results = [r \in Runs |-> DefaultMaxResults]
    /\ region = [r \in Runs |-> Unset]
    /\ api_key = [r \in Runs |-> Unset]
    /\ all_results = [r \in Runs |-> Unset]

(* ------------------------------ actions -------------------------------- *)
\* the UTC clock advances by one second
Tick ==
    /\ now - StartInstant < MaxTicks
    /\ now' = now + 1
    /\ UNCHANGED <<files, outputsDir, pc, argv, environ, max_results, region,
                   api_key, all_results, stdout, exit_status, trace, csv_ret>>

\* main, lines 121-129: region, get_api_key (sys.exit(1) without a key), bundle
MainStart(r) ==
    /\ pc[r] = "start"
    /\ LET reg == ResolveRegion(argv[r], environ[r])
           key == get_api_key(environ[r])
       IN  /\ region' = [region EXCEPT ![r] = reg]
           /\ IF KeyMissing(key)
              THEN /\ stdout' = [stdout EXCEPT ![r] = @ \o <<MsgKeyUnset, MsgKeyHint>>]
                   /\ exit_status' = [exit_status EXCEPT ![r] = 1]
                   /\ pc' = [pc EXCEPT ![r] = "exited"]
                   /\ UNCHANGED <<api_key, all_results>>
              ELSE /\ api_key' = [api_key EXCEPT ![r] = key]
                   /\ all_results' = [all_results EXCEPT ![r] = NewBundle(now, reg)]
                   /\ stdout' = [stdout EXCEPT ![r] =
                          Append(@, <<"Fetching trending videos for region: ", reg.v>>)]
                   /\ pc' = [pc EXCEPT ![r] = "query"]
                   /\ UNCHANGED exit_status
    /\ UNCHANGED <<now, files, outputsDir, argv, environ, max_results, trace, csv_ret>>

\* variant: no try/except, the exception leaves main
AfterQueryUncaught(reply) == IF reply.raised THEN "crashed" ELSE "save_csv"

\* variant: a failed call is made again
AfterQueryRetry(reply) == IF reply.raised THEN "query" ELSE "save_csv"

\* where main goes after the try/except around query_trending
AfterQuery(reply) == "save_csv"

\* main, lines 130-136: the one call of query_trending and all_results["items"] = data
QueryTrending(r, replies) ==
    /\ pc[r] = "query"
    /\ \E reply \in replies :
         LET request == BuildRequest(api_key[r], region[r], max_results[r])
             data == IF reply.raised THEN ErrorObject(reply.exc) ELSE reply.body
         IN  /\ trace' = [trace EXCEPT ![r] = Append(@, <<"urlopen", request>>)]
             /\ stdout' = [stdout EXCEPT ![r] =
                    IF reply.raised
                    THEN Append(@, <<"Failed to query trending videos: ", ExcStr(reply.exc)>>)
                    ELSE @]
             /\ all_results' = [all_results EXCEPT ![r] = SetKey(@, "items", data)]
             /\ pc' = [pc EXCEPT ![r] = AfterQuery(reply)]
    /\ UNCHANGED <<now, files, outputsDir, argv, environ, max_results, region,
                   api_key, exit_status, csv_ret>>

\* save_csv(all_results); an exception in the row loop ends the process
SaveCsv(r) ==
    /\ pc[r] = "save_csv"
    /\ outputsDir' = TRUE
    /\ LET stamp == Strftime(UtcNow(now))
           csv_path == CsvPath(stamp)
           items == Get(all_results[r], "items", None)
           made == Append(trace[r], <<"makedirs", "outputs">>)
       IN  IF SkipCsv(items)
           THEN /\ stdout' = [stdout EXCEPT ![r] = Append(@, MsgNoItems)]
                /\ csv_ret' = [csv_ret EXCEPT ![r] = None]
                /\ trace' = [trace EXCEPT ![r] = made]
                /\ pc' = [pc EXCEPT ![r] = "save_output"]
                /\ UNCHANGED <<files, exit_status>>
           ELSE LET got == ExtractRows(items)
                IN  IF got.raised
                    THEN /\ exit_status' = [exit_status EXCEPT ![r] = 1]
                         /\ trace' = [trace EXCEPT ![r] = made]
                         /\ pc' = [pc EXCEPT ![r] = "crashed"]
                         /\ UNCHANGED <<files, stdout, csv_ret>>
                    ELSE IF got.rows = <<>>
                    THEN /\ stdout' = [stdout EXCEPT ![r] = Append(@, MsgNoRows)]
                         /\ csv_ret' = [csv_ret EXCEPT ![r] = None]
                         /\ trace' = [trace EXCEPT ![r] = made]
                         /\ pc' = [pc EXCEPT ![r] = "save_output"]
                         /\ UNCHANGED <<files, exit_status>>
                    ELSE /\ files' = WriteFile(files, csv_path, CsvContent(got.rows), r, now)
                         /\ stdout' = [stdout EXCEPT ![r] =
                                Append(@, <<"Saved CSV summary to: ", csv_path>>)]
                         /\ csv_ret' = [csv_ret EXCEPT ![r] = [t |-> "path", v |-> csv_path]]
                         /\ trace' = [trace EXCEPT ![r] = Append(made, <<"open_w", csv_path>>)]
                         /\ pc' = [pc EXCEPT ![r] = "save_output"]
                         /\ UNCHANGED exit_status
    /\ UNCHANGED <<now, argv, environ, max_results, region, api_key, all_results>>

\* save_output(all_results), then main returns and the process exits with 0
SaveOutput(r) ==
    /\ pc[r] = "save_output"
    /\ outputsDir' = TRUE
    /\ LET out_path == JsonPath(Strftime(UtcNow(now)))
       IN  /\ files' = WriteFile(files, out_path, all_results[r], r, now)
           /\ stdout' = [stdout EXCEPT ![r] = Append(@, <<"Saved results to: ", out_path>>)]
           /\ trace' = [trace EXCEPT ![r] =
                  @ \o << <<"makedirs", "outputs">>, <<"open_w", out_path>> >>]
    /\ exit_status' = [exit_status EXCEPT ![r] = 0]
    /\ pc' = [pc EXCEPT ![r] = "done"]
    /\ UNCHANGED <<now, argv, environ, max_results, region, api_key, all_results, csv_ret>>

Next ==
    \/ Tick
    \/ \E r \in Runs : MainStart(r)
    \/ \E r \in Runs : QueryTrending(r, Replies)
    \/ \E r \in Runs : SaveCsv(r)
    \/ \E r \in Runs : SaveOutput(r)

Spec == Init /\ [][Next]_vars

NextQT == \E r \in Runs : QueryTrending(r, FewReplies)

SpecQT == InitQT /\ [][NextQT]_vars

NextRuns ==
    \/ Tick
    \/ \E r \in Runs : MainStart(r)
    \/ \E r \in Runs : QueryTrending(r, TwoReplies)
    \/ \E r \in Runs : SaveCsv(r)
    \/ \E r \in Runs : SaveOutput(r)

SpecRuns == InitRuns /\ [][NextRuns]_vars

(* ------------------------------ properties ----------------------------- *)
Ended(r) == pc[r] \in {"done", "exited", "crashed"}
PastQuery(r) == pc[r] \in {"save_csv", "save_output", "done", "crashed"}
PastCsv(r) == pc[r] \in {"save_output", "done", "crashed"}

NonEmptyStr(x) == x.t = "str" /\ x.v # <<>>
KeyIsSet(r) == NonEmptyStr(Get(environ[r], YOUTUBE_API_KEY, None))

TraceOps(r, op) == {i \in 1..Len(trace[r]) : trace[r][i][1] = op}
Calls(r) == Cardinality(TraceOps(r, "urlopen"))
Opened(r) == {trace[r][i][2] : i \in TraceOps(r, "open_w")}
QueryFailed(r) ==
    \E i \in 1..Len(stdout[r]) : stdout[r][i][1] = "Failed to query trending videos: "
Printed(r, msg) == \E i \in 1..Len(stdout[r]) : stdout[r][i] = msg

ItemsOf(r) == Get(all_results[r], "items", None)
JsonWritten(r) ==
    \E p \in Opened(r) :
        /\ p[4] = ".json"
        /\ p \in DOMAIN files
        /\ files[p].content = all_results[r]
CsvFiles == {p \in DOMAIN files : p[4] = ".csv"}

\* C1: every run that passes the credential check ends by writing the JSON
\* file, whatever the decoded response looks like; save_csv never lets a
\* failure out.
C1_JsonAlwaysPersisted ==
    \A r \in Runs : (KeyIsSet(r) /\ Ended(r)) => (pc[r] = "done" /\ JsonWritten(r))

\* C2: with YOUTUBE_API_KEY unset or empty the run prints the diagnostic and
\* exits with status 1, having sent no request, created no outputs/ directory
\* and written no file.
C2_NoKeyNoOutput ==
    \A r \in Runs : (pc[r] # "off" /\ ~KeyIsSet(r)) =>
        /\ trace[r] = <<>>
        /\ files = NoFiles
        /\ ~outputsDir
        /\ pc[r] \in {"start", "exited"}
        /\ pc[r] = "exited" =>
              /\ exit_status[r] = 1
              /\ stdout[r] = <<MsgKeyUnset, MsgKeyHint>>
C2_Witness ==
    \E r \in Runs : pc[r] = "exited" /\ HasKey(environ[r], YOUTUBE_API_KEY)

\* C3: when the remote call fails, main catches the failure, the bundle's
\* items is {"error": <non-empty message>}, the run goes on, and at its end the
\* JSON file holds that bundle and the exit status is 0.
C3_FailureRecordedAndPersisted ==
    \A r \in Runs : QueryFailed(r) =>
        /\ ItemsOf(r).t = "obj"
        /\ Len(ItemsOf(r).v) = 1
        /\ ItemsOf(r).v[1][1] = "error"
        /\ NonEmptyStr(ItemsOf(r).v[1][2])
        /\ pc[r] \in {"save_csv", "save_output", "done"}
        /\ pc[r] # "done" => exit_status[r] = Running
        /\ pc[r] = "done" => (exit_status[r] = 0 /\ JsonWritten(r))
C3_Witness ==
    \E r \in Runs : QueryFailed(r) /\ pc[r] = "done" /\ JsonWritten(r)

\* C4: one query is issued per keyword of the command line (or of the
\* three-term default list) and the persisted JSON lists exactly those
\* queries, in input order.
Keywords(args) == IF Len(args) > 1 THEN SubSeq(args, 2, Len(args)) ELSE DEFAULT_KEYWORDS
C4_OneQueryPerKeyword ==
    \A r \in Runs : pc[r] = "done" =>
        LET kw == Keywords(argv[r])
            q == ItemsOf(r)
        IN  /\ Calls(r) = Len(kw)
            /\ q.t = "list"
            /\ Len(q.v) = Len(kw)
            /\ \A i \in 1..Len(kw) :
                   q.v[i].t = "obj" /\ Get(q.v[i], "query", None) = kw[i]

\* C5: a response without an items list (an error object, a non-object, an
\* object with no "items" key) makes save_csv write no CSV, print the skip
\* notice and return None, and the run still writes the JSON file.
LacksItemsList(x) == x.t # "obj" \/ \A i \in 1..Len(x.v) : x.v[i][1] # "items"
C5_NoItemsSkipsCsv ==
    \A r \in Runs : (PastCsv(r) /\ LacksItemsList(ItemsOf(r))) =>
        /\ pc[r] # "crashed"
        /\ csv_ret[r] = None
        /\ Printed(r, MsgNoItems)
        /\ \A p \in Opened(r) : p[4] # ".csv"
        /\ CsvFiles = {}
        /\ pc[r] = "done" => JsonWritten(r)
C5_Witness ==
    \E r \in Runs : pc[r] = "done" /\ ItemsOf(r).t = "list" /\ JsonWritten(r)

\* C6: for a response with a non-empty list of video items the CSV is the
\* fixed header followed by one row per item in item order, and a row's
\* videoId is the nested videoId (else the nested kind), the bare string id,
\* or empty when there is none.
ExpectedVideoId(item) ==
    LET id == IF HasKey(item, "id") THEN Get(item, "id", None) ELSE None
    IN  CASE id.t = "str" -> id.v
          [] id.t = "obj" ->
                IF HasKey(id, "videoId") /\ NonEmptyStr(Get(id, "videoId", None))
                THEN Get(id, "videoId", None).v
                ELSE IF HasKey(id, "kind") THEN Get(id, "kind", None).v
                ELSE <<>>
          [] OTHER -> <<>>
IsVideoList(x) ==
    /\ x.t = "obj"
    /\ HasKey(x, "items")
    /\ Get(x, "items", None).t = "list"
    /\ Get(x, "items", None).v # <<>>
    /\ \A i \in 1..Len(Get(x, "items", None).v) : Get(x, "items", None).v[i] \in VideoItems
C6_CsvRowPerItem ==
    \A r \in Runs : (PastCsv(r) /\ IsVideoList(ItemsOf(r))) =>
        /\ pc[r] # "crashed"
        /\ csv_ret[r].t = "path"
        /\ csv_ret[r].v \in DOMAIN files
        /\ LET q == Get(ItemsOf(r), "items", None).v
               csv == files[csv_ret[r].v].content
           IN  /\ Len(csv) = Len(q) + 1
               /\ csv[1] = <<"videoId", "title", "channelTitle", "viewCount">>
               /\ \A i \in 1..Len(q) : csv[i + 1][1] = ExpectedVideoId(q[i])
C6_Witness ==
    \E r \in Runs :
        /\ pc[r] = "done"
        /\ IsVideoList(ItemsOf(r))
        /\ LET q == Get(ItemsOf(r), "items", None).v
               csv == files[csv_ret[r].v].content
           IN  /\ Len(q) = 2
               /\ Get(q[1], "id", None).t = "obj"
               /\ Get(q[2], "id", None).t = "str"
               /\ csv[2][1] = Vid2.v
               /\ csv[3][1] = Vid1.v

\* C7: the maxResults sent upstream is never above 50: a requested value
\* above 50 is sent as 50, a value of 50 or less is sent unchanged.
DigitValue(c) == CHOOSE d \in 0..9 : Digits[d + 1] = c
RECURSIVE ParseNat(_)
ParseNat(s) == IF s = <<>> THEN 0
               ELSE 10 * ParseNat(SubSeq(s, 1, Len(s) - 1)) + DigitValue(s[Len(s)])
ParseInt(s) == IF s[1] = "-" THEN 0 - ParseNat(Tail(s)) ELSE ParseNat(s)
SentMaxResults(r, i) == ParseInt(trace[r][i][2].params[4][2])
C7_MaxResultsClamped ==
    \A r \in Runs : \A i \in TraceOps(r, "urlopen") :
        /\ trace[r][i][2].params[4][1] = "maxResults"
        /\ SentMaxResults(r, i) <= 50
        /\ max_results[r] > 50 => SentMaxResults(r, i) = 50
        /\ max_results[r] <= 50 => SentMaxResults(r, i) = max_results[r]
C7_Witness ==
    \E r \in Runs : max_results[r] = 75 /\ Calls(r) = 1

\* C8: an output file is never deleted, and it is replaced only by a write in
\* the very second of the write that made it; a write in any other second
\* makes a file of its own and leaves the others as they were.
C8_OverwriteOnlySameSecond ==
    [][\A p \in DOMAIN files :
          /\ p \in DOMAIN files'
          /\ files'[p] # files[p] => files[p].mtime = now]_vars
C8_Witness ==
    \E p \in DOMAIN files : \E q \in DOMAIN files :
        /\ p[4] = ".json"
        /\ q[4] = ".json"
        /\ p # q
        /\ files[p].writer # files[q].writer
        /\ files[p].mtime # files[q].mtime
        /\ \A r \in Runs : pc[r] = "done"

\* C9 as stated: the region is the command-line argument when one is given,
\* else YOUTUBE_REGION when set, else "JP"; the request and the bundle carry
\* the same region.
RegionSentIsRecorded(r) ==
    /\ PastQuery(r) => Get(all_results[r], "region", None) = region[r]
    /\ \A i \in TraceOps(r, "urlopen") :
           trace[r][i][2].params[3] = <<"regionCode", Get(all_results[r], "region", None).v>>
C9_RegionGivenOrSet ==
    \A r \in Runs : PastQuery(r) =>
        /\ region[r] = IF Len(argv[r]) > 1 THEN argv[r][2]
                       ELSE IF HasKey(environ[r], YOUTUBE_REGION)
                            THEN Get(environ[r], YOUTUBE_REGION, None)
                            ELSE JStr(JP)
        /\ RegionSentIsRecorded(r)

\* C9 amended: the region is the command-line argument when one is given and
\* is not empty, else YOUTUBE_REGION when set and not empty, else "JP"; the
\* request and the bundle carry the same region.
C9_RegionNonEmptyPrecedence ==
    \A r \in Runs : PastQuery(r) =>
        /\ region[r] = IF Len(argv[r]) > 1 /\ argv[r][2].v # <<>> THEN argv[r][2]
                       ELSE IF /\ HasKey(environ[r], YOUTUBE_REGION)
                               /\ Get(environ[r], YOUTUBE_REGION, None).v # <<>>
                            THEN Get(environ[r], YOUTUBE_REGION, None)
                            ELSE JStr(JP)
        /\ RegionSentIsRecorded(r)
C9_Witness ==
    \E r \in Runs :
        /\ pc[r] = "done"
        /\ Len(argv[r]) > 1
        /\ argv[r][2] = EmptyStr
        /\ region[r] = KR
        /\ Calls(r) = 1

\* C10: a run that passes the credential check calls the remote query exactly
\* once, as its first operation on the outside world, after a failure as
\* after a success, and goes from it to persistence.
C10_QueriedExactlyOnce ==
    \A r \in Runs :
        /\ Calls(r) = IF PastQuery(r) THEN 1 ELSE 0
        /\ PastQuery(r) => trace[r][1][1] = "urlopen"
        /\ (Ended(r) /\ KeyIsSet(r)) => Calls(r) = 1
C10_Witness ==
    \E r \in Runs : pc[r] = "done" /\ QueryFailed(r) /\ Calls(r) = 1

====
